---- MODULE Spec2Model ----
(***************************************************************************)
(* CNT Explorer 2.0 (src/app.py): a Streamlit script that is re-executed   *)
(* top to bottom on every widget change.  The state is the six widget      *)
(* values and the values the script derives from them.                     *)
(*                                                                         *)
(* Python floats are modelled as decimal floating-point numbers with an    *)
(* eight-digit mantissa, [m |-> mantissa, e |-> exponent] standing for     *)
(* m * 10^e, every operation truncating its exact result to eight digits.  *)
(* All intermediate integers stay below 2^31.                              *)
(*                                                                         *)
(* The band-structure plot (lines 38-50) and the other rendering calls     *)
(* bind nothing that a later line reads and are left out.                  *)
(***************************************************************************)
EXTENDS Integers, Sequences, FiniteSets, TLC

\* The six widget values, and what the last run of the script bound: a
\* record with the fields diameter, metallic, bandgap, Id, grid, R, Id_cnt,
\* Id_si, synthesis and err.
VARIABLES n, m, Vg, Vd, size, length_um, run

vars == <<n, m, Vg, Vd, size, length_um, run>>

---------------------------------------------------------------------------
(* Decimal floating point                                                  *)

Pow10 == [k \in 0..9 |-> CASE k = 0 -> 1 [] k = 1 -> 10 [] k = 2 -> 100
                           [] k = 3 -> 1000 [] k = 4 -> 10000
                           [] k = 5 -> 100000 [] k = 6 -> 1000000
                           [] k = 7 -> 10000000 [] k = 8 -> 100000000
                           [] OTHER -> 1000000000]

Abs(x) == IF x < 0 THEN 0 - x ELSE x

Sgn(x) == IF x < 0 THEN 0 - 1 ELSE 1

Zero == [m |-> 0, e |-> 0]

\* The number of decimal digits of k, 1 <= k < 2^31.
RECURSIVE NumDigits(_)
NumDigits(k) == IF k < 10 THEN 1 ELSE 1 + NumDigits(k \div 10)

\* mant * 10^ex as a float: the mantissa brought to exactly eight digits,
\* the digits that do not fit dropped.
Norm(mant, ex) ==
    IF mant = 0 THEN Zero
    ELSE LET d == NumDigits(Abs(mant))
         IN  IF d > 8
             THEN [m |-> Sgn(mant) * (Abs(mant) \div Pow10[d - 8]),
                   e |-> ex + (d - 8)]
             ELSE [m |-> mant * Pow10[8 - d], e |-> ex - (8 - d)]

FromInt(k) == Norm(k, 0)

FNeg(x) == [m |-> 0 - x.m, e |-> x.e]

\* x + y: the operand of smaller exponent is shifted to the larger one.
FAdd(x, y) ==
    IF x.m = 0 THEN y
    ELSE IF y.m = 0 THEN x
    ELSE LET hi == IF x.e >= y.e THEN x ELSE y
             lo == IF x.e >= y.e THEN y ELSE x
             sh == hi.e - lo.e
         IN  IF sh > 8 THEN hi
             ELSE Norm(hi.m + Sgn(lo.m) * (Abs(lo.m) \div Pow10[sh]), hi.e)

FSub(x, y) == FAdd(x, FNeg(y))

\* x * y: the exact product of the two mantissas, cut to nine digits by
\* halves so that no intermediate passes 2^31, then normalised.
FMul(x, y) ==
    IF x.m = 0 \/ y.m = 0 THEN Zero
    ELSE LET ax == Abs(x.m)
             ay == Abs(y.m)
             xh == ax \div 10000
             xl == ax % 10000
             yh == ay \div 10000
             yl == ay % 10000
             mid == xh * yl + xl * yh + ((xl * yl) \div 10000)
             p == xh * yh * 10 + (mid \div 1000)
         IN  Norm(Sgn(x.m) * Sgn(y.m) * p, x.e + y.e + 7)

\* Long division: the quotient digits of r / b, k more digits appended to acc.
RECURSIVE LongDiv(_, _, _, _)
LongDiv(r, b, k, acc) ==
    IF k = 0 THEN acc
    ELSE LongDiv((r * 10) % b, b, k - 1, acc * 10 + ((r * 10) \div b))

\* What a float division by zero yields in Python: no value, an exception.
ZeroDivisionError == [exc |-> "ZeroDivisionError"]

Raised(x) == x = ZeroDivisionError

\* A name the script never bound because it stopped earlier.
Undefined == [undefined |-> TRUE]

\* x / y; Python raises ZeroDivisionError for y = 0.
FDiv(x, y) ==
    IF y.m = 0 THEN ZeroDivisionError
    ELSE IF x.m = 0 THEN Zero
    ELSE LET ax == Abs(x.m)
             ay == Abs(y.m)
             q == LongDiv(ax % ay, ay, 8, ax \div ay)
         IN  Norm(Sgn(x.m) * Sgn(y.m) * q, x.e - y.e - 8)

FLt(x, y) == FSub(x, y).m < 0

FLe(x, y) == FSub(x, y).m <= 0

\* Integer square root by bisection, lo^2 <= k < hi^2.
RECURSIVE ISqrt(_, _, _)
ISqrt(k, lo, hi) ==
    IF hi - lo <= 1 THEN lo
    ELSE LET mid == (lo + hi) \div 2
         IN  IF mid * mid <= k THEN ISqrt(k, mid, hi) ELSE ISqrt(k, lo, mid)

\* The root of x to four digits, from the integer root of its mantissa.
SqrtSeed(x) ==
    IF (x.e % 2) = 1
    THEN Norm(ISqrt(x.m * 10, 0, 31623), (x.e - 1) \div 2)
    ELSE Norm(ISqrt(x.m, 0, 31623), x.e \div 2)

\* One Newton step from s towards the root of x.
Newton(x, s) == FMul(Norm(5, 0 - 1), FAdd(s, FDiv(x, s)))

\* math.sqrt(x), x >= 0: the four-digit root refined by two Newton steps,
\* right to about one unit of the last digit.
FSqrt(x) == IF x.m = 0 THEN Zero ELSE Newton(x, Newton(x, SqrtSeed(x)))

\* f as a table of its values: @@ evaluates both of its operands in full,
\* so that a table defined with it is computed once.
Tabulated(f) == f @@ <<>>

---------------------------------------------------------------------------
(* Program constants                                                       *)

a == Norm(246, 0 - 3)

pi == Norm(31415926, 0 - 7)

beta == Norm(10, 0 - 6)

rho == Norm(1, 0 - 6)

mu == Norm(200, 0 - 4)

Cox == Norm(1, 0 - 3)

WoverL == 10

n_min == 1

n_max == 200

n_default == 12

m_min == 0

m_max == 200

m_default == 6

\* The voltage sliders: 0.0 to 2.0 by 0.1, at 1.0 first; a position k
\* stands for the value 0.0 + k * 0.1.
VoltPositions == 20

VoltDefault == 10

size_min == 10

size_max == 40

size_default == 20

\* The length slider: 0.1 to 20.0, at 5.0 first, by the 0.01 a float slider
\* steps by when no step is given; a position k stands for 0.1 + k * 0.01.
LengthPositions == 1990

LengthDefault == 490

NumPoints == 50

VoltValue(k) == FAdd(Zero, FMul(FromInt(k), Norm(1, 0 - 1)))

LengthValue(k) == FAdd(Norm(1, 0 - 1), FMul(FromInt(k), Norm(1, 0 - 2)))

---------------------------------------------------------------------------
(* The script's computations, in its order                                 *)

\* Diameter with the n*m term of the radicand left out.
DiameterNoCrossTerm(nn, mm) ==
    FMul(FDiv(a, pi), FSqrt(FromInt(nn * nn + mm * mm)))

\* Line 21.
Diameter(nn, mm) ==
    FMul(FDiv(a, pi), FSqrt(FromInt(nn * nn + nn * mm + mm * mm)))

\* Line 22; % is Python's, never negative for a positive modulus.
Metallic(nn, mm) == ((nn - mm) % 3) = 0

\* Bandgap without the metallic branch: 0.7 / diameter for every tube.
BandgapAlwaysDivides(met, d) == FDiv(Norm(7, 0 - 1), d)

\* Bandgap refusing a zero diameter whatever the tube's type.
BandgapFailFast(met, d) ==
    IF d.m = 0 THEN ZeroDivisionError
    ELSE IF met THEN Zero ELSE FDiv(Norm(7, 0 - 1), d)

\* Line 23.
Bandgap(met, d) == IF met THEN Zero ELSE FDiv(Norm(7, 0 - 1), d)

\* Line 63.
Vt(bg) == FDiv(bg, FromInt(2))

\* max(0, x) with the clamp forgotten.
Max0Unclamped(x) == x

\* max(0, x): x only when x > 0.
Max0(x) == IF FLt(Zero, x) THEN x ELSE Zero

\* Line 64.
DrainCurrent(bg, vg, vd) == Max0(FMul(FMul(beta, FSub(vg, Vt(bg))), vd))

\* GridDiameter with the i*j term of the radicand left out.
GridDiameterNoCrossTerm(i, j) ==
    IF (i + j) > 0
    THEN FMul(FDiv(a, pi), FSqrt(FromInt(i * i + j * j)))
    ELSE Norm(1, 0 - 4)

\* Line 80.
GridDiameter(i, j) ==
    IF (i + j) > 0
    THEN FMul(FDiv(a, pi), FSqrt(FromInt(i * i + i * j + j * j)))
    ELSE Norm(1, 0 - 4)

\* GridCell sending cell (0, 0) through the division, its fallback diameter
\* put to use.
GridCellOriginGapped(i, j) ==
    IF ((i - j) % 3) = 0 /\ (i + j) > 0 THEN Zero
    ELSE FDiv(Norm(7, 0 - 1), GridDiameter(i, j))

\* GridCell testing i + j where the code tests i - j.
GridCellSignSlip(i, j) ==
    IF ((i + j) % 3) = 0 THEN Zero ELSE FDiv(Norm(7, 0 - 1), GridDiameter(i, j))

\* Lines 81-84.
GridCell(i, j) ==
    IF ((i - j) % 3) = 0 THEN Zero ELSE FDiv(Norm(7, 0 - 1), GridDiameter(i, j))

\* The cells are pure functions of their indices.
CellTable ==
    Tabulated([i \in 0..(size_max - 1), j \in 0..(size_max - 1) |-> GridCell(i, j)])

\* Lines 77-84.
Grid(s) == [i \in 0..(s - 1), j \in 0..(s - 1) |-> CellTable[i, j]]

GridRaised(g) == \E c \in DOMAIN g : Raised(g[c])

\* rho * q, unless computing q raised.
RhoTimes(q) == IF Raised(q) THEN ZeroDivisionError ELSE FMul(rho, q)

\* Lines 102-104: length_cm = length_um * 1e-4, R = rho * (length_cm / (diameter * 1e-7)).
Resistance(len, d) ==
    RhoTimes(FDiv(FMul(len, Norm(1, 0 - 4)), FMul(d, Norm(1, 0 - 7))))

\* Line 115: np.linspace(0, 2, 50), the last point set to the stop value.
V ==
    Tabulated([k \in 0..(NumPoints - 1) |->
        IF k = NumPoints - 1 THEN FromInt(2)
        ELSE FAdd(FMul(FromInt(k), FDiv(FromInt(2), FromInt(NumPoints - 1))), Zero)])

\* Line 117: a negative entry is set to 0.
ClipNegative(x) == IF FLt(x, Zero) THEN Zero ELSE x

\* Lines 116-117.
CntCurve(vt) ==
    Tabulated([k \in 0..(NumPoints - 1) |-> ClipNegative(FMul(beta, FSub(V[k], vt)))])

\* Lines 119-122.
SiCurve ==
    Tabulated([k \in 0..(NumPoints - 1) |->
        FMul(FMul(FMul(mu, Cox), FromInt(WoverL)), FMul(V[k], V[k]))])

\* Synthesis with <= for both tests.
SynthesisInclusive(d) ==
    IF FLe(d, FromInt(1)) THEN "laser ablation / arc discharge"
    ELSE IF FLe(d, FromInt(2)) THEN "CVD/PECVD"
    ELSE "fiber/MWCNT growth"

\* Lines 140-145.
Synthesis(d) ==
    IF FLt(d, FromInt(1)) THEN "laser ablation / arc discharge"
    ELSE IF FLt(d, FromInt(2)) THEN "CVD/PECVD"
    ELSE "fiber/MWCNT growth"

---------------------------------------------------------------------------
(* Bounds of the model                                                     *)

\* SpecTube types chirality indices up to these.
TubeMaxN == 26

TubeMaxM == 14

\* The other specifications type chirality indices up to these.
FewMaxN == 3

FewMaxM == 2

\* SpecGeom evaluates lines 21-23 on 0..GeomMax x 0..GeomMax.
GeomMax == 7

\* SpecSynth evaluates lines 140-145 on 0.00, 0.01, ... SynthMax / 100.
SynthMax == 300

Max(x, y) == IF x >= y THEN x ELSE y

FewVolts == {0, 7, VoltPositions}

FewSizes == {size_min, size_max}

FewLengths == {0, LengthPositions}

---------------------------------------------------------------------------
(* One run of the script                                                   *)

\* Lines 21-23, 115-117 and 140-145 read nothing but n and m.
TubeRecord(d, met, bg) ==
    [diameter |-> d, metallic |-> met, bandgap |-> bg,
     Id_cnt |-> IF Raised(bg) THEN Undefined ELSE CntCurve(Vt(bg)),
     synthesis |-> Synthesis(d)]

TubeOf(d, met) == TubeRecord(d, met, Bandgap(met, d))

Tube(nn, mm) == TubeOf(Diameter(nn, mm), Metallic(nn, mm))

\* Lines 77-84 for one size: the grid, or the exception a cell raised.
GridOrRaised(g) == IF GridRaised(g) THEN ZeroDivisionError ELSE g

\* The pure functions of (n, m) and of size, tabulated once.
TubeTable ==
    Tabulated([nn \in 0..Max(Max(TubeMaxN, FewMaxN), Max(GeomMax, n_default)),
               mm \in 0..Max(Max(TubeMaxM, FewMaxM), Max(GeomMax, m_default)) |->
                  Tube(nn, mm)])

GridTable == Tabulated([s \in size_min..size_max |-> GridOrRaised(Tabulated(Grid(s)))])

\* The line at which the script stops: that of the first ZeroDivisionError,
\* or 146, past its last statement.
StopLine(bg, g, r) ==
    IF Raised(bg) THEN 23
    ELSE IF Raised(g) THEN 84
    ELSE IF Raised(r) THEN 104
    ELSE 146

\* What the script has bound when it stops at line stop.
Bound(t, g, r, id, stop) ==
    [diameter |-> t.diameter,
     metallic |-> t.metallic,
     bandgap |-> IF stop > 23 THEN t.bandgap ELSE Undefined,
     Id |-> IF stop > 64 THEN id ELSE Undefined,
     grid |-> IF stop > 84 THEN g ELSE Undefined,
     R |-> IF stop > 104 THEN r ELSE Undefined,
     Id_cnt |-> IF stop > 117 THEN t.Id_cnt ELSE Undefined,
     Id_si |-> IF stop > 122 THEN SiCurve ELSE Undefined,
     synthesis |-> IF stop > 145 THEN t.synthesis ELSE "undefined",
     err |-> IF stop > 145 THEN "none" ELSE "ZeroDivisionError"]

Derived(t, g, r, vg, vd) ==
    Bound(t, g, r,
          IF Raised(t.bandgap) THEN Undefined ELSE DrainCurrent(t.bandgap, vg, vd),
          StopLine(t.bandgap, g, r))

WithTube(t, vg, vd, s, len) ==
    Derived(t, GridTable[s], Resistance(len, t.diameter), vg, vd)

\* The script, lines 16-145: every derived value from the six widget values.
\* A ZeroDivisionError stops it, leaving the later names unbound.
Script(nn, mm, vg, vd, s, len) == WithTube(TubeTable[nn, mm], vg, vd, s, len)

\* A rerun that keeps the geometry of the last run while n is unchanged.
RerunCachedOnN ==
    run' = IF n' = n
           THEN [Script(n', m', Vg', Vd', size', length_um')
                    EXCEPT !.diameter = run.diameter,
                           !.metallic = run.metallic,
                           !.bandgap = run.bandgap]
           ELSE Script(n', m', Vg', Vd', size', length_um')

\* Streamlit runs the whole script again with the new widget values.
Rerun == run' = Script(n', m', Vg', Vd', size', length_um')

\* The first run, every widget at its default.
Init ==
    /\ n = n_default
    /\ m = m_default
    /\ Vg = VoltValue(VoltDefault)
    /\ Vd = VoltValue(VoltDefault)
    /\ size = size_default
    /\ length_um = LengthValue(LengthDefault)
    /\ run = Script(n_default, m_default, VoltValue(VoltDefault),
                    VoltValue(VoltDefault), size_default,
                    LengthValue(LengthDefault))

\* ChangeN with no lower bound on the widget.
ChangeNUnbounded(v) ==
    /\ v <= n_max
    /\ n' = v
    /\ UNCHANGED <<m, Vg, Vd, size, length_um>>
    /\ run' = Script(n', m', Vg', Vd', size', length_um')

\* The number_input and slider widgets hand the script only values inside
\* their bounds.
ChangeN(v) ==
    /\ v >= n_min
    /\ v <= n_max
    /\ n' = v
    /\ UNCHANGED <<m, Vg, Vd, size, length_um>>
    /\ Rerun

ChangeM(v) ==
    /\ v >= m_min
    /\ v <= m_max
    /\ m' = v
    /\ UNCHANGED <<n, Vg, Vd, size, length_um>>
    /\ Rerun

ChangeVg(k) ==
    /\ k >= 0
    /\ k <= VoltPositions
    /\ Vg' = VoltValue(k)
    /\ UNCHANGED <<n, m, Vd, size, length_um>>
    /\ Rerun

ChangeVd(k) ==
    /\ k >= 0
    /\ k <= VoltPositions
    /\ Vd' = VoltValue(k)
    /\ UNCHANGED <<n, m, Vg, size, length_um>>
    /\ Rerun

ChangeSize(v) ==
    /\ v >= size_min
    /\ v <= size_max
    /\ size' = v
    /\ UNCHANGED <<n, m, Vg, Vd, length_um>>
    /\ Rerun

ChangeLength(k) ==
    /\ k >= 0
    /\ k <= LengthPositions
    /\ length_um' = LengthValue(k)
    /\ UNCHANGED <<n, m, Vg, Vd, size>>
    /\ Rerun

\* Every widget, a few values each.
Next ==
    \/ \E v \in 0..FewMaxN : ChangeN(v)
    \/ \E v \in 0..FewMaxM : ChangeM(v)
    \/ \E k \in FewVolts : ChangeVg(k)
    \/ \E k \in FewVolts : ChangeVd(k)
    \/ \E v \in FewSizes : ChangeSize(v)
    \/ \E k \in FewLengths : ChangeLength(k)

Spec == Init /\ [][Next]_vars

\* The chirality inputs widely, and the length.
NextTube ==
    \/ \E v \in 0..TubeMaxN : ChangeN(v)
    \/ \E v \in 0..TubeMaxM : ChangeM(v)
    \/ \E k \in FewLengths : ChangeLength(k)

SpecTube == Init /\ [][NextTube]_vars

\* Every position of the two voltage sliders, a few tubes.
NextFET ==
    \/ \E v \in 0..FewMaxN : ChangeN(v)
    \/ \E v \in 0..FewMaxM : ChangeM(v)
    \/ \E k \in 0..VoltPositions : ChangeVg(k)
    \/ \E k \in 0..VoltPositions : ChangeVd(k)

SpecFET == Init /\ [][NextFET]_vars

\* Every grid size, a few tubes.
NextGrid ==
    \/ \E v \in 0..FewMaxN : ChangeN(v)
    \/ \E v \in 0..FewMaxM : ChangeM(v)
    \/ \E v \in (size_min - 1)..(size_max + 1) : ChangeSize(v)

SpecGrid == Init /\ [][NextGrid]_vars

---------------------------------------------------------------------------
(* Lines 21-23 and lines 140-145 as functions of their inputs alone        *)

\* Nothing bound yet.
Unrun ==
    [diameter |-> Undefined, metallic |-> Undefined, bandgap |-> Undefined,
     Id |-> Undefined, grid |-> Undefined, R |-> Undefined,
     Id_cnt |-> Undefined, Id_si |-> Undefined,
     synthesis |-> "undefined", err |-> "none"]

\* What lines 21-23 bind, given the tube's values.
GeometryBound(t) ==
    [Unrun EXCEPT !.diameter = t.diameter,
                  !.metallic = t.metallic,
                  !.bandgap = IF Raised(t.bandgap) THEN Undefined ELSE t.bandgap,
                  !.err = IF Raised(t.bandgap) THEN "ZeroDivisionError" ELSE "none"]

InitGeom ==
    /\ n \in 0..GeomMax
    /\ m \in 0..GeomMax
    /\ Vg = VoltValue(VoltDefault)
    /\ Vd = VoltValue(VoltDefault)
    /\ size = size_default
    /\ length_um = LengthValue(LengthDefault)
    /\ run = Unrun

\* Lines 21-23 on (n, m), whatever a widget would have let through.
ComputeGeometry ==
    /\ run = Unrun
    /\ run' = GeometryBound(TubeTable[n, m])
    /\ UNCHANGED <<n, m, Vg, Vd, size, length_um>>

SpecGeom == InitGeom /\ [][ComputeGeometry]_vars

InitSynth ==
    /\ n = n_default
    /\ m = m_default
    /\ Vg = VoltValue(VoltDefault)
    /\ Vd = VoltValue(VoltDefault)
    /\ size = size_default
    /\ length_um = LengthValue(LengthDefault)
    /\ \E k \in 0..SynthMax : run = [Unrun EXCEPT !.diameter = Norm(k, 0 - 2)]

\* Lines 140-145 on the diameter given.
Advise ==
    /\ run.synthesis = "undefined"
    /\ run' = [run EXCEPT !.synthesis = Synthesis(run.diameter)]
    /\ UNCHANGED <<n, m, Vg, Vd, size, length_um>>

SpecSynth == InitSynth /\ [][Advise]_vars

---------------------------------------------------------------------------
(* The claims                                                              *)

Within(x, c, tol) == FLt(FSub(x, c), tol) /\ FLt(FSub(c, x), tol)

\* C1: after any sequence of input changes the tube is metallic exactly when
\* (n - m) mod 3 = 0; a metallic tube's bandgap is exactly 0; any other
\* tube's bandgap is 0.7 / diameter and strictly positive; metallic with a
\* nonzero bandgap is never reached.
C1_MetallicAndBandgap ==
    /\ run.metallic = (((n - m) % 3) = 0)
    /\ run.metallic => run.bandgap = Zero
    /\ ~run.metallic =>
          /\ run.bandgap = FDiv(Norm(7, 0 - 1), run.diameter)
          /\ FLt(Zero, run.bandgap)
    /\ ~(run.metallic /\ run.bandgap # Zero)

\* A semiconducting tube typed in after the first run.
C1_Witness ==
    /\ n = 10
    /\ m = 0
    /\ ~run.metallic
    /\ FLt(Zero, run.bandgap)

\* C2: the drain current is never negative; it is exactly 0 when
\* Vg <= Vt = bandgap / 2 or Vd = 0, and beta * (Vg - Vt) * Vd otherwise.
C2_DrainCurrentClamped ==
    /\ run.Id.m >= 0
    /\ (FLe(Vg, Vt(run.bandgap)) \/ Vd = Zero) => run.Id = Zero
    /\ ~(FLe(Vg, Vt(run.bandgap)) \/ Vd = Zero) =>
          run.Id = FMul(FMul(beta, FSub(Vg, Vt(run.bandgap))), Vd)

\* A positive gate voltage below the threshold of a semiconducting tube, the
\* drain voltage positive: the clamp acts.
C2_Witness ==
    /\ FLt(Zero, Vg)
    /\ FLt(Vg, Vt(run.bandgap))
    /\ FLt(Zero, Vd)
    /\ run.Id = Zero

\* C3 as stated: cell (0, 0) of the grid holds the large bandgap 0.7 / 0.0001
\* of its fallback diameter, apart from the 0 of the metallic cells.
C3_OriginHoldsFallbackGap ==
    /\ run.grid[0, 0] = FDiv(Norm(7, 0 - 1), GridDiameter(0, 0))
    /\ run.grid[0, 0] # Zero

\* C3 amended: cell (0, 0) is given the fallback diameter 0.0001 but, as
\* (0 - 0) mod 3 = 0, takes the metallic branch and holds exactly 0, for
\* every grid size from 10 to 40; the script raises nothing.
C3_OriginHoldsZero ==
    /\ size >= size_min
    /\ size <= size_max
    /\ run.err = "none"
    /\ GridDiameter(0, 0) = Norm(1, 0 - 4)
    /\ run.grid[0, 0] = Zero

\* The largest grid, chosen after the first run.
C3_Witness ==
    /\ size = size_max
    /\ <<0, 0>> \in DOMAIN run.grid
    /\ <<size_max - 1, size_max - 1>> \in DOMAIN run.grid
    /\ run.grid[0, 0] = Zero

Computed == run.diameter # Undefined

C5_DefaultTubeAsStated ==
    (n = n_default /\ m = m_default) =>
        /\ Within(run.diameter, Norm(14382, 0 - 4), Norm(1, 0 - 3))
        /\ run.metallic
        /\ run.bandgap = Zero

\* C5 amended: for n = 12, m = 6 the diameter is within 0.001 of 1.2430,
\* the tube metallic, the bandgap 0.
C5_DefaultTube ==
    (n = n_default /\ m = m_default) =>
        /\ Within(run.diameter, Norm(12430, 0 - 4), Norm(1, 0 - 3))
        /\ run.metallic
        /\ run.bandgap = Zero

\* The default tube again, reached by typing its indices back in.
C5_Witness ==
    /\ n = n_default
    /\ m = m_default
    /\ length_um = LengthValue(0)
    /\ run.metallic

Advised == run.synthesis # "undefined"

\* C6: the recommendation is exactly one of three labels: the first iff
\* diameter < 1, the second iff 1 <= diameter < 2, the third iff
\* diameter >= 2; diameter 1.0 gets the second and 2.0 the third.
C6_SynthesisSteps ==
    Advised =>
        /\ run.synthesis \in {"laser ablation / arc discharge", "CVD/PECVD",
                              "fiber/MWCNT growth"}
        /\ (run.synthesis = "laser ablation / arc discharge")
              = FLt(run.diameter, FromInt(1))
        /\ (run.synthesis = "CVD/PECVD")
              = (FLe(FromInt(1), run.diameter) /\ FLt(run.diameter, FromInt(2)))
        /\ (run.synthesis = "fiber/MWCNT growth") = FLe(FromInt(2), run.diameter)
        /\ run.diameter = FromInt(1) => run.synthesis = "CVD/PECVD"
        /\ run.diameter = FromInt(2) => run.synthesis = "fiber/MWCNT growth"

\* The rule applied to a diameter of exactly 1.0.
C6_Witness ==
    /\ run.diameter = FromInt(1)
    /\ run.synthesis = "CVD/PECVD"

\* C7: every cell (i, j) of the grid with (i - j) mod 3 = 0 and i + j > 0
\* holds exactly 0, i - j negative or not, for every grid size.
C7_MetallicCellsZero ==
    /\ DOMAIN run.grid = (0..(size - 1)) \X (0..(size - 1))
    /\ \A i \in 0..(size - 1), j \in 0..(size - 1) :
          (((i - j) % 3) = 0 /\ (i + j) > 0) => run.grid[i, j] = Zero

\* The largest grid: zeros where i - j is -3 and where it is 3, something
\* else beside them.
C7_Witness ==
    /\ size = size_max
    /\ run.grid[36, 39] = Zero
    /\ run.grid[3, 0] = Zero
    /\ run.grid[1, 0] # Zero

C9_NoDivisionByZero ==
    /\ n >= n_min
    /\ n <= n_max
    /\ m >= m_min
    /\ m <= m_max
    /\ n * n + n * m + m * m >= 1
    /\ FLt(Zero, run.diameter)
    /\ run.err = "none"
    /\ FLt(Zero, run.R)

\* The thinnest tube and the shortest length.
C9_Witness ==
    /\ n = 1
    /\ m = 0
    /\ length_um = LengthValue(0)
    /\ FLt(Zero, run.R)

\* Lines 21-23 on every index pair of the largest grid.
SingleTubeBandgap ==
    Tabulated([i \in 0..(size_max - 1), j \in 0..(size_max - 1) |->
                  Bandgap(Metallic(i, j), Diameter(i, j))])

\* C10: every grid cell (i, j) with i >= 1 holds the bandgap lines 21-23
\* give for n = i, m = j, whatever tube is selected.
C10_GridAgreesWithSingleTube ==
    \A i \in 1..(size - 1), j \in 0..(size - 1) :
        run.grid[i, j] = SingleTubeBandgap[i, j]

\* A semiconducting tube selected whose own cell is in the largest grid.
C10_Witness ==
    /\ size = size_max
    /\ n = 2
    /\ m = 1
    /\ run.grid[n, m] = run.bandgap
    /\ run.bandgap # Zero

====
